---- MODULE Spec2Model ----
(***************************************************************************)
(* Model of preprocessing/automate_Vioart.py: the five-stage batch         *)
(* pipeline load -> drop_constant_features -> fill_missing_values ->       *)
(* preprocess_text_columns -> create_content_soup -> to_csv.               *)
(*                                                                         *)
(* A text is a sequence of one-character strings.  A cell is a text or     *)
(* NaN (pandas' missing value).  A table (DataFrame) is a record           *)
(*   [cols |-> sequence of column names, n |-> number of rows,             *)
(*    data |-> [column name -> sequence of n cells]].                      *)
(***************************************************************************)
EXTENDS Naturals, Sequences, FiniteSets

VARIABLES
    pc,        \* position of the run: the stage that executes next
    raw,       \* the input as given (table, row or text), never changed
    df,        \* the DataFrame held by the running pipeline
    file,      \* the output CSV file on disk, NoFile when absent
    reloaded,  \* the table read back from the output file
    text,      \* the text held by the text-normalisation driver
    passes     \* how many times the driver's function has been applied

vars == <<pc, raw, df, file, reloaded, text, passes>>

\* ------------------------------------------------------------------------
\* Bounds of the model
\* ------------------------------------------------------------------------
MaxLen == 6        \* longest text drawn as an input of the normaliser
MaxListLen == 3    \* longest list-like field drawn for the soup builder
NRows == 2         \* rows of the tables drawn for the pipeline

\* ------------------------------------------------------------------------
\* Characters
\* ------------------------------------------------------------------------
LowerCase == <<"a","b","c","d","e","f","g","h","i","j","k","l","m",
               "n","o","p","q","r","s","t","u","v","w","x","y","z">>
UpperCase == <<"A","B","C","D","E","F","G","H","I","J","K","L","M",
               "N","O","P","Q","R","S","T","U","V","W","X","Y","Z">>
Digits == {"0","1","2","3","4","5","6","7","8","9"}

Range(s) == {s[i] : i \in DOMAIN s}

\* [a-zA-Z] of the patterns at lines 81-82.
IsAsciiLetter(c) == c \in Range(LowerCase) \cup Range(UpperCase)

\* Letters outside ASCII, written by code point: U+00E9 is e with acute,
\* U+00C9 its upper case.  Python 3 patterns on str are Unicode patterns.
NonAsciiLower == {"U+00E9"}
NonAsciiUpper == {"U+00C9"}

\* \w of a str pattern: Unicode letters and digits, and the underscore.
IsWord(c) ==
    \/ IsAsciiLetter(c)
    \/ c \in Digits
    \/ c = "_"
    \/ c \in NonAsciiLower \cup NonAsciiUpper

\* \s of a str pattern, and the characters str.strip() and str.split() remove.
IsSpace(c) == c \in {" ", "\t", "\n", "\r"}

\* str.lower() on one character.
ToLower(c) ==
    IF c \in Range(UpperCase)
    THEN LowerCase[CHOOSE i \in DOMAIN UpperCase : UpperCase[i] = c]
    ELSE IF c = "U+00C9" THEN "U+00E9" ELSE c

\* ------------------------------------------------------------------------
\* preprocess_individual_text (lines 69-86)
\* ------------------------------------------------------------------------
Min(S) == CHOOSE m \in S : \A k \in S : m <= k

\* The index just past the whitespace run that starts at i (i itself when
\* t[i] is not whitespace): what a greedy \s+ consumes from i.
SpanSpace(t, i) ==
    Min({j \in i..(Len(t) + 1) : j = Len(t) + 1 \/ ~IsSpace(t[j])})

\* line 80: re.sub(r'\W', ' ', text)
SubNonWord(t) == [i \in 1..Len(t) |-> IF IsWord(t[i]) THEN t[i] ELSE " "]

\* line 81: re.sub(r'\s+[a-zA-Z]\s+', ' ', text), leftmost non-overlapping
\* matches, scanned from index i.
RECURSIVE ScanSingleLetters(_, _)
ScanSingleLetters(t, i) ==
    IF i > Len(t) THEN <<>>
    ELSE LET j == SpanSpace(t, i)
         IN  IF /\ j > i
                /\ j + 1 <= Len(t)
                /\ IsAsciiLetter(t[j])
                /\ IsSpace(t[j + 1])
             THEN <<" ">> \o ScanSingleLetters(t, SpanSpace(t, j + 1))
             ELSE <<t[i]>> \o ScanSingleLetters(t, i + 1)

SubSingleLetters(t) == ScanSingleLetters(t, 1)

SubLeadingLetterSkipped(t) == t

\* line 82: re.sub(r'^[a-zA-Z]\s+', ' ', text)
SubLeadingLetter(t) ==
    IF Len(t) >= 2 /\ IsAsciiLetter(t[1]) /\ IsSpace(t[2])
    THEN <<" ">> \o SubSeq(t, SpanSpace(t, 2), Len(t))
    ELSE t

\* line 83: re.sub(r'\s+', ' ', text, flags=re.I), scanned from index i.
RECURSIVE ScanSpaces(_, _)
ScanSpaces(t, i) ==
    IF i > Len(t) THEN <<>>
    ELSE IF IsSpace(t[i])
         THEN <<" ">> \o ScanSpaces(t, SpanSpace(t, i))
         ELSE <<t[i]>> \o ScanSpaces(t, i + 1)

CollapseSpacesSkipped(t) == t

CollapseSpaces(t) == ScanSpaces(t, 1)

\* line 84: re.sub(r'^b\s+', '', text)
StripLeadingB(t) ==
    IF Len(t) >= 2 /\ t[1] = "b" /\ IsSpace(t[2])
    THEN SubSeq(t, SpanSpace(t, 2), Len(t))
    ELSE t

\* str.lower()
Lower(t) == [i \in 1..Len(t) |-> ToLower(t[i])]

\* str.strip(): drop the leading and the trailing whitespace.
Strip(t) ==
    LET keep == {i \in 1..Len(t) : ~IsSpace(t[i])}
    IN  IF keep = {} THEN <<>>
        ELSE SubSeq(t, Min(keep), CHOOSE m \in keep : \A k \in keep : k <= m)

\* pandas' missing value (no text: its one element is not a character), and
\* str() of a cell (line 79).
NaN == <<"NaN">>
Str(v) == IF v = NaN THEN <<"n","a","n">> ELSE v

preprocess_individual_text(text_input) ==
    Strip(Lower(StripLeadingB(CollapseSpaces(SubLeadingLetter(
        SubSingleLetters(SubNonWord(Str(text_input))))))))

\* ------------------------------------------------------------------------
\* Tables
\* ------------------------------------------------------------------------
NoTable == [cols |-> <<>>, n |-> 0, data |-> <<>>]
NoFile == [exists |-> FALSE, header |-> <<>>, lines |-> <<>>]

Columns(t) == Range(t.cols)

\* The table without the columns in S, the order of the others kept
\* (DataFrame.drop(columns=..., errors='ignore')).
DropColumns(t, S) ==
    [cols |-> SelectSeq(t.cols, LAMBDA c : c \notin S),
     n    |-> t.n,
     data |-> [c \in Columns(t) \ S |-> t.data[c]]]

\* ------------------------------------------------------------------------
\* load_and_check_dataset (lines 24-30) and DataFrame.to_csv (line 164)
\* A CSV file is [exists, header |-> column names, lines |-> rows of
\* fields]; a field is the text between two delimiters, quoting undone.
\* ------------------------------------------------------------------------
\* The field texts pandas.read_csv reads as a missing value by default.
NaValues ==
    { <<>>,
      <<"n","a","n">>, <<"N","a","N">>, <<"-","n","a","n">>, <<"-","N","a","N">>,
      <<"n","u","l","l">>, <<"N","U","L","L">>, <<"N","o","n","e">>,
      <<"N","A">>, <<"N","/","A">>, <<"n","/","a">>, <<"<","N","A",">">>,
      <<"#","N","A">>, <<"#","N","/","A">>, <<"#","N","/","A"," ","N","/","A">>,
      <<"1",".","#","I","N","D">>, <<"-","1",".","#","I","N","D">>,
      <<"1",".","#","Q","N","A","N">>, <<"-","1",".","#","Q","N","A","N">> }

ParseField(f) == IF f \in NaValues THEN NaN ELSE f

\* pd.read_csv(file_path): one column per header name, one row per line.
\* The inference of a numeric dtype for a column of numerals is left out:
\* it changes the type of a cell, and no field drawn below is a numeral.
ReadCsv(f) ==
    [cols |-> f.header,
     n    |-> Len(f.lines),
     data |-> [c \in Range(f.header) |->
                 LET k == CHOOSE i \in DOMAIN f.header : f.header[i] = c
                 IN  [r \in 1..Len(f.lines) |-> ParseField(f.lines[r][k])]]]

\* to_csv writes a missing value as the empty field (na_rep='').
FormatField(v) == IF v = NaN THEN <<>> ELSE v

\* df.to_csv(output_file, index=False)
WriteCsv(t) ==
    [exists |-> TRUE,
     header |-> t.cols,
     lines  |-> [r \in 1..t.n |->
                   [k \in 1..Len(t.cols) |-> FormatField(t.data[t.cols[k]][r])]]]

\* ------------------------------------------------------------------------
\* drop_constant_features (lines 42-53)
\* ------------------------------------------------------------------------
Threshold == 95    \* the 0.95 of line 45, in hundredths

Max(S) == CHOOSE m \in S : \A k \in S : k <= m

\* df[col].value_counts(): the count of each value, missing cells left out
\* (dropna=True is the default).
ValueCounts(col) ==
    [v \in Range(col) \ {NaN} |-> Cardinality({i \in DOMAIN col : col[i] = v})]

\* value_counts(normalize=True).max() > 0.95.  The fractions are the counts
\* over the number of cells that are not missing; the max of no fraction
\* at all is NaN, and NaN > 0.95 is False.
IsNearConstant(col) ==
    LET counts == ValueCounts(col)
        present == Cardinality({i \in DOMAIN col : col[i] # NaN})
    IN  /\ DOMAIN counts # {}
        /\ 100 * Max({counts[v] : v \in DOMAIN counts}) > Threshold * present

metadata_cols == {"record_modified", "resource_revised"}

drop_constant_features(t) ==
    LET constant_cols == {c \in Columns(t) : IsNearConstant(t.data[c])}
    IN  DropColumns(DropColumns(t, constant_cols), metadata_cols)

\* ------------------------------------------------------------------------
\* fill_missing_values (lines 55-67)
\* ------------------------------------------------------------------------
FillNaKeepingNaN(v) == v

\* fillna('') on one cell
FillNa(v) == IF v = NaN THEN <<>> ELSE v

fill_missing_values(t) ==
    [t EXCEPT !.data = [c \in Columns(t) |->
                          [r \in 1..t.n |-> FillNa(t.data[c][r])]]]

\* ------------------------------------------------------------------------
\* preprocess_text_columns (lines 88-103)
\* ------------------------------------------------------------------------
text_columns == {"resource_name", "description", "intended_audiences",
                 "subject_areas", "type", "authoring_organization"}

preprocess_text_columns(t, columns) ==
    [t EXCEPT !.data = [c \in Columns(t) |->
                          IF c \in columns
                          THEN [r \in 1..t.n |-> preprocess_individual_text(t.data[c][r])]
                          ELSE t.data[c]]]

\* ------------------------------------------------------------------------
\* create_content_soup (lines 105-127)
\* ------------------------------------------------------------------------
\* str.replace(';', ' ')
ReplaceSemicolons(t) == [i \in 1..Len(t) |-> IF t[i] = ";" THEN " " ELSE t[i]]

\* str.split(): the maximal runs of characters that are not whitespace,
\* from index i on.
RECURSIVE SplitFrom(_, _)
SplitFrom(t, i) ==
    LET start == SpanSpace(t, i)
    IN  IF start > Len(t) THEN <<>>
        ELSE LET stop == Min({j \in start..(Len(t) + 1) :
                                 j = Len(t) + 1 \/ IsSpace(t[j])})
             IN  <<SubSeq(t, start, stop - 1)>> \o SplitFrom(t, stop)

Split(t) == SplitFrom(t, 1)

\* " ".join(tokens)
RECURSIVE Join(_)
Join(tokens) ==
    IF tokens = <<>> THEN <<>>
    ELSE IF Len(tokens) = 1 THEN tokens[1]
    ELSE tokens[1] \o <<" ">> \o Join(Tail(tokens))

\* The columns combine_text reads; a row without one of them raises KeyError.
soup_columns == {"resource_name", "description", "subject_areas", "type",
                 "intended_audiences", "authoring_organization"}

combine_text_swapped(row) ==
    LET subject_areas == Join(Split(ReplaceSemicolons(row["subject_areas"])))
        intended_audiences == Join(Split(ReplaceSemicolons(row["intended_audiences"])))
    IN  row["resource_name"] \o <<" ">> \o
        row["description"] \o <<" ">> \o
        intended_audiences \o <<" ">> \o
        row["type"] \o <<" ">> \o
        subject_areas \o <<" ">> \o
        row["authoring_organization"]

combine_text(row) ==
    LET subject_areas == Join(Split(ReplaceSemicolons(row["subject_areas"])))
        intended_audiences == Join(Split(ReplaceSemicolons(row["intended_audiences"])))
    IN  row["resource_name"] \o <<" ">> \o
        row["description"] \o <<" ">> \o
        subject_areas \o <<" ">> \o
        row["type"] \o <<" ">> \o
        intended_audiences \o <<" ">> \o
        row["authoring_organization"]

\* Row r of a table: column name -> cell.
Row(t, r) == [c \in Columns(t) |-> t.data[c][r]]

\* Whether df.apply(combine_text, axis=1) raises.
SoupFails(t) == ~(soup_columns \subseteq Columns(t))

\* df["content_soup"] = df.apply(combine_text, axis=1): the new column goes
\* last, an existing column of that name is overwritten in place.
create_content_soup(t) ==
    [cols |-> IF "content_soup" \in Columns(t) THEN t.cols
              ELSE Append(t.cols, "content_soup"),
     n    |-> t.n,
     data |-> [c \in Columns(t) \cup {"content_soup"} |->
                 IF c = "content_soup"
                 THEN [r \in 1..t.n |-> combine_text(Row(t, r))]
                 ELSE t.data[c]]]

\* ------------------------------------------------------------------------
\* preprocess_data (lines 143-168): the stages in the order they run
\* ------------------------------------------------------------------------
StageAfterSavingEarly(stage) ==
    CASE stage = "load"  -> "prune"
      [] stage = "prune" -> "fill"
      [] stage = "fill"  -> "norm"
      [] stage = "norm"  -> "save"
      [] stage = "save"  -> "soup"
      [] stage = "soup"  -> "done"

StageAfter(stage) ==
    CASE stage = "load"  -> "prune"
      [] stage = "prune" -> "fill"
      [] stage = "fill"  -> "norm"
      [] stage = "norm"  -> "soup"
      [] stage = "soup"  -> "save"
      [] stage = "save"  -> "done"

\* line 144: a file that does not exist makes read_csv raise.
LoadDataset ==
    /\ pc = "load"
    /\ IF raw.exists
       THEN /\ df' = ReadCsv(raw)
            /\ pc' = StageAfter("load")
       ELSE /\ pc' = "aborted"
            /\ UNCHANGED df
    /\ UNCHANGED <<raw, file, reloaded, text, passes>>

\* line 147
DropConstantFeatures ==
    /\ pc = "prune"
    /\ df' = drop_constant_features(df)
    /\ pc' = StageAfter("prune")
    /\ UNCHANGED <<raw, file, reloaded, text, passes>>

\* line 150
FillMissingValues ==
    /\ pc = "fill"
    /\ df' = fill_missing_values(df)
    /\ pc' = StageAfter("fill")
    /\ UNCHANGED <<raw, file, reloaded, text, passes>>

\* lines 153-155
PreprocessTextColumns ==
    /\ pc = "norm"
    /\ df' = preprocess_text_columns(df, text_columns)
    /\ pc' = StageAfter("norm")
    /\ UNCHANGED <<raw, file, reloaded, text, passes>>

\* line 158: the KeyError of a missing column ends the run.
CreateContentSoup ==
    /\ pc = "soup"
    /\ IF SoupFails(df)
       THEN /\ pc' = "aborted"
            /\ UNCHANGED df
       ELSE /\ df' = create_content_soup(df)
            /\ pc' = StageAfter("soup")
    /\ UNCHANGED <<raw, file, reloaded, text, passes>>

\* lines 161-165
SaveOutput ==
    /\ pc = "save"
    /\ file' = WriteCsv(df)
    /\ pc' = StageAfter("save")
    /\ UNCHANGED <<raw, df, reloaded, text, passes>>

\* load_and_check_dataset applied to the file the run has written.
ReloadOutput ==
    /\ pc = "done"
    /\ reloaded' = ReadCsv(file)
    /\ pc' = "reloaded"
    /\ UNCHANGED <<raw, df, file, text, passes>>

\* ------------------------------------------------------------------------
\* Inputs
\* ------------------------------------------------------------------------
RECURSIVE SeqsUpTo(_, _)
SeqsUpTo(S, n) ==
    IF n = 0 THEN {<<>>}
    ELSE LET shorter == SeqsUpTo(S, n - 1)
         IN  shorter \cup {Append(s, c) : s \in {q \in shorter : Len(q) = n - 1}, c \in S}

\* The row of the specification's scenario.
ScenarioRow ==
    [resource_name          |-> <<"M","e","d","X","!","!">>,
     description            |-> <<"A"," ","g","r","e","a","t"," ","t","o","o","l">>,
     subject_areas          |-> <<"a",";","b",";","c">>,
     type                   |-> <<"V","i","d","e","o">>,
     intended_audiences     |-> <<"s","t","u","d","e","n","t","s",";","n","u","r","s","e","s">>,
     authoring_organization |-> <<"A","C","M","E"," ","C","o","r","p">>]

SoupColumnOrder == <<"resource_name", "description", "subject_areas", "type",
                     "intended_audiences", "authoring_organization">>

\* The one-row table holding a row.
TableOfRow(row) ==
    [cols |-> SoupColumnOrder,
     n    |-> 1,
     data |-> [c \in soup_columns |-> <<row[c]>>]]

\* One character of each class the six steps tell apart: a letter, the
\* letter b of line 84, an upper-case letter, a word character that is no
\* ASCII letter, a space and a punctuation mark.
TextAlphabet == {"a", "b", "B", "U+00E9", " ", ";"}

NamedTexts ==
    { <<"x"," ","a"," ","b"," ","c"," ","d">>,
      <<"R","2","_","d","2"," ","b">>,
      <<"\t", "Z", "\n", "9", "_">>,
      <<"U+00C9", "t", "U+00E9", "!">>,
      NaN }
    \cup {ScenarioRow[c] : c \in soup_columns}

TextInputs == SeqsUpTo(TextAlphabet, MaxLen) \cup NamedTexts

\* ------------------------------------------------------------------------
\* The text driver: the normaliser applied to one value, then again to its
\* own result (df[col].apply at line 101 applies it to each cell).
\* ------------------------------------------------------------------------
InitText ==
    /\ pc = "text"
    /\ raw \in TextInputs
    /\ text = raw
    /\ passes = 0
    /\ df = NoTable
    /\ file = NoFile
    /\ reloaded = NoTable

ApplyNormalizer ==
    /\ pc = "text"
    /\ passes < 2
    /\ text' = preprocess_individual_text(text)
    /\ passes' = passes + 1
    /\ UNCHANGED <<pc, raw, df, file, reloaded>>

NextText == ApplyNormalizer

SpecText == InitText /\ [][NextText]_vars

\* C1: text normalisation is idempotent: applying preprocess_individual_text
\* to its own result gives that result again.
C1_NormalizeIdempotent ==
    passes = 2 => text = preprocess_individual_text(raw)

AsciiNormalChars == Range(LowerCase) \cup Digits \cup {"_", " "}

\* No leading or trailing whitespace, and no two whitespace characters in a row.
SingleSpaced(t) ==
    /\ t # <<>> => ~IsSpace(t[1]) /\ ~IsSpace(t[Len(t)])
    /\ \A i \in 1..Len(t) : IsSpace(t[i]) => t[i] = " "
    /\ \A i \in 1..(Len(t) - 1) : ~(IsSpace(t[i]) /\ IsSpace(t[i + 1]))

\* C4 as stated: every result of preprocess_individual_text holds only
\* characters of [a-z0-9_ ], has no outer whitespace and no two spaces in a row.
C4_AsciiNormalForm ==
    passes >= 1 => /\ Range(text) \subseteq AsciiNormalChars
                   /\ SingleSpaced(text)

\* C4 as amended: every result of preprocess_individual_text has no outer
\* whitespace and no two spaces in a row, and each of its characters is in
\* [a-z0-9_ ] or is a lower-cased word character outside ASCII.
C4_NormalForm ==
    passes >= 1 => /\ Range(text) \subseteq AsciiNormalChars \cup NonAsciiLower
                   /\ SingleSpaced(text)

\* A result with two tokens, from an input with upper case, punctuation and
\* outer whitespace.
C4_Witness ==
    /\ passes = 1
    /\ raw # NaN
    /\ Len(raw) >= 1
    /\ IsSpace(raw[1])
    /\ "B" \in Range(raw)
    /\ ";" \in Range(raw)
    /\ " " \in Range(text)
    /\ "b" \in Range(text)

\* ------------------------------------------------------------------------
\* The pruning driver: drop_constant_features applied to one table
\* ------------------------------------------------------------------------
Archived == <<"a","r","c","h","i","v","e","d">>
Active == <<"a","c","t","i","v","e">>

\* A column of a cells "archived", then b cells "active", then m missing cells.
RunColumn(a, b, m) ==
    [i \in 1..(a + b + m) |->
        IF i <= a THEN Archived ELSE IF i <= a + b THEN Active ELSE NaN]

RowCounts == {20, 100, 1000}

\* The counts of the most frequent value tried in a column of n rows: all,
\* 96%, 95%, 94%, half and none of the rows.
TopCounts(n) ==
    {n, (96 * n) \div 100, (95 * n) \div 100, (94 * n) \div 100, n \div 2, 0}

ColumnsOf(n) ==
    UNION {{RunColumn(a, n - a, 0), RunColumn(a, 0, n - a)} : a \in TopCounts(n)}

PruneInputs ==
    UNION {
        {[cols |-> <<"status", "type">> \o meta,
          n    |-> n,
          data |-> [c \in {"status", "type"} \cup Range(meta) |->
                      IF c = "status" THEN s
                      ELSE IF c = "type" THEN ty
                      ELSE RunColumn(n \div 2, n - (n \div 2), 0)]] :
            s \in ColumnsOf(n), ty \in ColumnsOf(n),
            meta \in {<<>>, <<"record_modified">>}} :
        n \in RowCounts}

InitPrune ==
    /\ pc = "prune"
    /\ raw \in PruneInputs
    /\ df = raw
    /\ file = NoFile
    /\ reloaded = NoTable
    /\ text = <<>>
    /\ passes = 0

NextPrune == DropConstantFeatures

SpecPrune == InitPrune /\ [][NextPrune]_vars

\* Whether the most frequent value of a column, a missing cell counted as a
\* value like any other, is held by more than 95% of the rows.
TopFractionExceeds(col) ==
    100 * Max({Cardinality({i \in DOMAIN col : col[i] = v}) : v \in Range(col)})
        > 95 * Len(col)

\* C2: drop_constant_features removes no column whose top-value fraction
\* (missing counted as a value) is at most 0.95, the two metadata columns
\* apart.
C2_KeepsVaryingColumns ==
    pc = "fill" =>
        \A c \in Columns(raw) \ metadata_cols :
            ~TopFractionExceeds(raw.data[c]) => c \in Columns(df)

\* C3: drop_constant_features removes every column whose most frequent value
\* (missing counted as a value) is held by more than 95% of the rows, and
\* keeps every other column that is not a metadata column.
C3_DropsExactlyNearConstant ==
    pc = "fill" =>
        \A c \in Columns(raw) \ metadata_cols :
            TopFractionExceeds(raw.data[c]) <=> c \notin Columns(df)

\* ------------------------------------------------------------------------
\* The fill driver: fill_missing_values applied to one table, then again to
\* its own result
\* ------------------------------------------------------------------------
FillCells == {NaN, <<>>, <<"A", "b", "!">>}

FillInputs ==
    {[cols |-> <<"description", "type">>,
      n    |-> NRows,
      data |-> [c \in {"description", "type"} |->
                  IF c = "description" THEN d ELSE ty]] :
        d \in [1..NRows -> FillCells], ty \in [1..NRows -> FillCells]}

InitFill ==
    /\ pc = "fill_twice"
    /\ raw \in FillInputs
    /\ df = raw
    /\ file = NoFile
    /\ reloaded = NoTable
    /\ text = <<>>
    /\ passes = 0

ApplyFillMissingValues ==
    /\ pc = "fill_twice"
    /\ passes < 2
    /\ df' = fill_missing_values(df)
    /\ passes' = passes + 1
    /\ UNCHANGED <<pc, raw, file, reloaded, text>>

NextFill == ApplyFillMissingValues

SpecFill == InitFill /\ [][NextFill]_vars

\* C9: the result of fill_missing_values holds no missing cell and every
\* cell that was not missing unchanged (the empty string included), and
\* filling that result again gives it back.
C9_FillIdempotent ==
    passes >= 1 =>
        /\ df.cols = raw.cols
        /\ df.n = raw.n
        /\ \A c \in Columns(raw) : \A r \in 1..raw.n :
              /\ df.data[c][r] # NaN
              /\ raw.data[c][r] # NaN => df.data[c][r] = raw.data[c][r]
              /\ raw.data[c][r] = NaN => df.data[c][r] = <<>>
        /\ passes = 2 => df = fill_missing_values(raw)

\* Filled twice, a table that held a missing cell and an empty string.
C9_Witness ==
    /\ passes = 2
    /\ \E c \in Columns(raw) : \E r \in 1..raw.n : raw.data[c][r] = NaN
    /\ \E c \in Columns(raw) : \E r \in 1..raw.n : raw.data[c][r] = <<>>

\* ------------------------------------------------------------------------
\* The soup driver: preprocess_text_columns, then create_content_soup, on
\* one row (lines 152-158), or create_content_soup alone
\* ------------------------------------------------------------------------
ListAlphabet == {"a", ";", " "}

ListFields ==
    SeqsUpTo(ListAlphabet, MaxListLen)
    \cup { <<"x", " ", "\t", ";", " ", "y">>, <<"\n", "k", ";", ";", "m", " ">> }

SoupRows ==
    {ScenarioRow}
    \cup {[resource_name          |-> rn,
           description            |-> <<"O", "f", " ", "x", ".">>,
           subject_areas          |-> sa,
           type                   |-> ty,
           intended_audiences     |-> ia,
           authoring_organization |-> <<"W", "H", "O">>] :
            rn \in {<<>>, <<"b", " ", "M", "e", "d">>},
            ty \in {<<"P", "D", "F">>, <<" ">>},
            sa \in ListFields, ia \in ListFields}

InitSoup ==
    /\ pc \in {"norm", "soup"}
    /\ raw \in {TableOfRow(row) : row \in SoupRows}
    /\ df = raw
    /\ file = NoFile
    /\ reloaded = NoTable
    /\ text = <<>>
    /\ passes = 0

NextSoup == PreprocessTextColumns \/ CreateContentSoup

SpecSoup == InitSoup /\ [][NextSoup]_vars

\* The soup was built from the normalised input row.
BuiltFromNormalized ==
    /\ pc = "save"
    /\ DropColumns(df, {"content_soup"}) = preprocess_text_columns(raw, text_columns)

\* C6 as stated: the scenario row, normalised and combined, gives
\* "medx a great tool a b c video students nurses acme corp".
C6_ScenarioSoupAsStated ==
    (BuiltFromNormalized /\ raw = TableOfRow(ScenarioRow)) =>
        df.data["content_soup"][1] =
            <<"m","e","d","x"," ","a"," ","g","r","e","a","t"," ","t","o","o","l"," ","a"," ","b"," ","c"," ","v","i","d","e","o"," ","s","t","u","d","e","n","t","s"," ","n","u","r","s","e","s"," ","a","c","m","e"," ","c","o","r","p">>

\* C6 as amended: the scenario row, normalised and combined, gives
\* "medx great tool c video students nurses acme corp": the normaliser
\* removes the leading "A" of the description and the one-letter tokens
\* "a" and "b" of the subject areas.
C6_ScenarioSoup ==
    (BuiltFromNormalized /\ raw = TableOfRow(ScenarioRow)) =>
        df.data["content_soup"][1] =
            <<"m","e","d","x"," ","g","r","e","a","t"," ","t","o","o","l"," ","c"," ","v","i","d","e","o"," ","s","t","u","d","e","n","t","s"," ","n","u","r","s","e","s"," ","a","c","m","e"," ","c","o","r","p">>

C6_Witness ==
    /\ BuiltFromNormalized
    /\ raw = TableOfRow(ScenarioRow)
    /\ "content_soup" \in Columns(df)

\* A list-like field as the soup is to hold it: every ";" a space, every
\* whitespace run one space, no outer whitespace.
CollapsedList(t) == Strip(CollapseSpaces(ReplaceSemicolons(t)))

\* C7: content_soup is resource_name, description, subject_areas', type,
\* intended_audiences', authoring_organization in this order with one space
\* between two neighbours, the primed fields being the list-like fields with
\* ";" replaced and whitespace collapsed, the others as they are.
C7_SoupIsConcatenation ==
    pc = "save" =>
        /\ Columns(df) = soup_columns \cup {"content_soup"}
        /\ \A r \in 1..df.n :
              LET row == Row(df, r)
              IN  row["content_soup"] =
                      row["resource_name"] \o <<" ">> \o row["description"]
                      \o <<" ">> \o CollapsedList(row["subject_areas"])
                      \o <<" ">> \o row["type"]
                      \o <<" ">> \o CollapsedList(row["intended_audiences"])
                      \o <<" ">> \o row["authoring_organization"]

\* A soup built from list-like fields that differ, one of them with a ";"
\* next to whitespace.
C7_Witness ==
    /\ pc = "save"
    /\ "content_soup" \in Columns(df)
    /\ df.data["subject_areas"][1] # df.data["intended_audiences"][1]
    /\ ";" \in Range(df.data["subject_areas"][1])
    /\ " " \in Range(df.data["subject_areas"][1])
    /\ df.data["subject_areas"][1] # CollapsedList(df.data["subject_areas"][1])

\* ------------------------------------------------------------------------
\* The pipeline: preprocess_data on one input file
\* ------------------------------------------------------------------------
InputColumnOrder == SoupColumnOrder \o <<"record_modified">>

\* The cells of description and type are drawn freely; the other columns
\* hold a different value in every row.  A file has at least one column:
\* read_csv raises on a file without a header.

InputFields == {<<>>, <<"N", "e", "w", "!">>, <<";">>}

DefaultField(r) == <<"K", LowerCase[r], "?">>

InputFiles ==
    {[exists |-> TRUE,
      header |-> SelectSeq(InputColumnOrder, LAMBDA c : c \in present),
      lines  |-> [r \in 1..NRows |->
                    LET header == SelectSeq(InputColumnOrder, LAMBDA c : c \in present)
                    IN  [k \in 1..Len(header) |->
                            IF header[k] = "description" THEN d[r]
                            ELSE IF header[k] = "type" THEN ty[r]
                            ELSE DefaultField(r)]]] :
        present \in (SUBSET Range(InputColumnOrder)) \ {{}},
        d \in [1..NRows -> InputFields],
        ty \in [1..NRows -> InputFields]}

InitPipe ==
    /\ pc = "load"
    /\ raw \in InputFiles \cup {NoFile}
    /\ df = NoTable
    /\ file = NoFile
    /\ reloaded = NoTable
    /\ text = <<>>
    /\ passes = 0

NextPipe ==
    \/ LoadDataset
    \/ DropConstantFeatures
    \/ FillMissingValues
    \/ PreprocessTextColumns
    \/ CreateContentSoup
    \/ SaveOutput

SpecPipe == InitPipe /\ [][NextPipe]_vars

\* C5: the output file exists only once every stage has completed, and a
\* run that has aborted has written no file.
C5_NoPartialSuccess ==
    /\ file.exists => /\ pc = "done"
                      /\ "content_soup" \in Columns(df)
                      /\ file = WriteCsv(df)
    /\ pc = "aborted" => ~file.exists
    /\ pc = "done" => file.exists

\* A run aborted by create_content_soup for want of the description column
\* alone.
C5_Witness ==
    /\ pc = "aborted"
    /\ raw.exists
    /\ Columns(df) \cap soup_columns = soup_columns \ {"description"}

\* C10: a run whose loaded table holds the six soup source columns still
\* holds them when create_content_soup runs, and does not abort.
C10_SoupColumnsSurvive ==
    (raw.exists /\ soup_columns \subseteq Range(raw.header)) =>
        /\ pc # "aborted"
        /\ pc \in {"fill", "norm", "soup"} => soup_columns \subseteq Columns(df)

\* ------------------------------------------------------------------------
\* The round trip: the pipeline, then its output file loaded again
\* ------------------------------------------------------------------------
NextRoundTrip == NextPipe \/ ReloadOutput

SpecRoundTrip == InitPipe /\ [][NextRoundTrip]_vars

\* C8: the table read back from the output file has the columns, the rows
\* and the cell contents of the table that was written.
C8_RoundTrip ==
    pc = "reloaded" => reloaded = df

====
